---- MODULE Spec2Model ----
(***************************************************************************)
(* Model of the retrieval / reranking pipeline of eshf-embeddings:         *)
(*   src/lib/rag/retrieval.ts  retrieveContext                             *)
(*   src/lib/rag/reranker.ts   rerankChunks, callJinaRerankerWithRetry,    *)
(*                             callJinaReranker, isRetryableError,         *)
(*                             selectAdaptiveTopK                          *)
(*                                                                         *)
(* One behaviour is one invocation, either of retrieveContext (embed,      *)
(* similarity search, rerank) or of rerankChunks called directly.  The     *)
(* scoring service, the embedding service and the vector index are the     *)
(* environment: every answer they can give is a nondeterministic choice.   *)
(*                                                                         *)
(* Scores are integers (score units); strings are sequences of tokens, a   *)
(* token being one word or one decimal digit, so that String.includes is   *)
(* a contiguous-subsequence test and a status code is formatted to its     *)
(* digits.  Array indexes keep the 0-based values of the source; the       *)
(* sequence position is index + 1.                                         *)
(***************************************************************************)
EXTENDS Integers, Sequences, FiniteSets, TLC

\* ------------------------------------------------------------------------
\* Bounds of the model
\* ------------------------------------------------------------------------
MaxChunks == 2
MaxResults == 2
MaxScore == 2
MaxRetriesBound == 2
MaxTimeout == 1

\* ------------------------------------------------------------------------
\* Strings
\* ------------------------------------------------------------------------
DigitTok(d) ==
  CASE d = 0 -> "0" [] d = 1 -> "1" [] d = 2 -> "2" [] d = 3 -> "3"
    [] d = 4 -> "4" [] d = 5 -> "5" [] d = 6 -> "6" [] d = 7 -> "7"
    [] d = 8 -> "8" [] OTHER -> "9"

RECURSIVE Digits(_)
Digits(n) ==
  IF n < 10 THEN <<DigitTok(n)>>
  ELSE Digits(n \div 10) \o <<DigitTok(n % 10)>>

LowerTok(t) ==
  CASE t = "Network" -> "network"
    [] t = "Timeout" -> "timeout"
    [] t = "Jina" -> "jina"
    [] t = "API" -> "api"
    [] t = "Bad" -> "bad"
    [] t = "Request" -> "request"
    [] t = "Not" -> "not"
    [] t = "Implemented" -> "implemented"
    [] t = "Unexpected" -> "unexpected"
    [] t = "Cannot" -> "cannot"
    [] t = "ECONNREFUSED" -> "econnrefused"
    [] OTHER -> t

toLowerCase(s) == [i \in 1..Len(s) |-> LowerTok(s[i])]

includes(s, pat) ==
  \E i \in 1..(Len(s) - Len(pat) + 1) : SubSeq(s, i, i + Len(pat) - 1) = pat

\* ------------------------------------------------------------------------
\* Errors
\* ------------------------------------------------------------------------
NoError == [name |-> "none", message |-> <<>>]

Err(name, message) == [name |-> name, message |-> message]

\* messages with which fetch, response.text() or response.json() reject when
\* the connection fails
NetworkMessages ==
  { <<"Network", "error">>, <<"ECONNREFUSED">> }

\* message of the SyntaxError of response.json() on a body that is not JSON
SyntaxMessages ==
  { <<"Unexpected", "token">> }

TypeErrorMessage == <<"Cannot", "read", "properties", "of", "undefined">>

\* HTTP statuses the service answers with, and texts of its error bodies
Statuses == { 200, 400, 500, 501 }

ErrorTexts == { <<"Bad", "Request">>, <<"Request", "Timeout">>, <<"Not", "Implemented">> }

ok(status) == status >= 200 /\ status <= 299

isRetryableError(error) ==
  LET message == toLowerCase(error.message)
  IN  \/ includes(message, <<"timeout">>)
      \/ includes(message, <<"network">>)
      \/ includes(message, <<"econnrefused">>)
      \/ includes(message, <<"enotfound">>)
      \/ includes(message, <<"5", "0", "0">>)
      \/ includes(message, <<"5", "0", "2">>)
      \/ includes(message, <<"5", "0", "3">>)
      \/ includes(message, <<"5", "0", "4">>)

\* ------------------------------------------------------------------------
\* Configuration (RerankerConfig) and candidates
\* ------------------------------------------------------------------------
Scores == 0..MaxScore

\* adaptiveTopK settings; min = 0 and max < min are settings the environment
\* variables can carry
AdaptiveConfigs ==
  { [enabled |-> FALSE, min |-> 1, max |-> 2, scoreGapThreshold |-> 0] } \cup
  { [enabled |-> TRUE, min |-> mn, max |-> mx, scoreGapThreshold |-> g] :
      mn \in 0..1, mx \in 1..2, g \in {0} }

Configs ==
  [ enabled : BOOLEAN,
    minScore : {1},
    timeout : 1..MaxTimeout,
    maxRetries : 0..MaxRetriesBound,
    adaptiveTopK : AdaptiveConfigs ]

\* a match of the vector index: its score may be absent (score?: number)
ScoreOpts == { <<>> } \cup { <<s>> : s \in Scores }

CandidatesOfLen(n) ==
  { [i \in 1..n |-> [id |-> i - 1, score |-> f[i]]] : f \in [1..n -> ScoreOpts] }

Candidates == UNION { CandidatesOfLen(n) : n \in 0..MaxChunks }

\* c.score || 0
ScoreOrZero(c) == IF c.score = <<>> THEN 0 ELSE c.score[1]

\* ------------------------------------------------------------------------
\* Parsed response bodies (JinaRerankResponse, possibly incomplete)
\* ------------------------------------------------------------------------
\* entries of results for a request of n documents: index n is out of range
ResultEntries(n) == [index : 0..n, relevance_score : Scores]

ResultLists(n) ==
  UNION { [1..k -> ResultEntries(n)] : k \in 0..MaxResults }

JsonBodies(n) ==
  { [hasResults |-> FALSE, results |-> <<>>, hasUsage |-> u] : u \in BOOLEAN } \cup
  { [hasResults |-> TRUE, results |-> rs, hasUsage |-> u] :
      rs \in ResultLists(n), u \in BOOLEAN }

\* ------------------------------------------------------------------------
\* Outcomes of a call: a returned value or a thrown error
\* ------------------------------------------------------------------------
Return(v) == [thrown |-> FALSE, value |-> v, error |-> NoError]

Throw(e) == [thrown |-> TRUE, value |-> <<>>, error |-> e]

\* ------------------------------------------------------------------------
\* Pure parts of rerankChunks
\* ------------------------------------------------------------------------
\* chunks.map(c => ({chunk: c, originalScore: c.score || 0,
\*                   rerankerScore: c.score || 0}))
OriginalScored(chunks) ==
  [i \in 1..Len(chunks) |->
     [chunk |-> chunks[i],
      originalScore |-> ScoreOrZero(chunks[i]),
      rerankerScore |-> ScoreOrZero(chunks[i])]]

\* the result of the early return (terminal "disabled"); its
\* rerankingLatency is the literal 0, where the other results carry a
\* difference of two clock readings that the model does not follow
DisabledResult(chunks) ==
  [chunks |-> OriginalScored(chunks),
   metrics |-> [originalCount |-> Len(chunks), filteredCount |-> 0,
                finalCount |-> Len(chunks), rerankingLatency |-> 0],
   terminal |-> "disabled"]

\* variant: the fallback leaves rerankerScore at zero
FallbackResult_zero(chunks) ==
  [chunks |-> [i \in 1..Len(chunks) |->
                 [chunk |-> chunks[i],
                  originalScore |-> ScoreOrZero(chunks[i]),
                  rerankerScore |-> 0]],
   metrics |-> [originalCount |-> Len(chunks), filteredCount |-> 0,
                finalCount |-> Len(chunks)],
   terminal |-> "fallback"]

\* the result of the catch branch (terminal "fallback")
FallbackResult(chunks) ==
  [chunks |-> OriginalScored(chunks),
   metrics |-> [originalCount |-> Len(chunks), filteredCount |-> 0,
                finalCount |-> Len(chunks)],
   terminal |-> "fallback"]

\* chunks.slice(0, end) for end >= 0
slice0(chunks, end) ==
  SubSeq(chunks, 1, IF end < Len(chunks) THEN end ELSE Len(chunks))

\* the for loop of selectAdaptiveTopK from index i on
RECURSIVE AdaptiveScan(_, _, _)
AdaptiveScan(chunks, cfg, i) ==
  IF i < Len(chunks) - 1 /\ i < cfg.max - 1
  THEN IF i < 0
       THEN Throw(Err("TypeError", TypeErrorMessage))
       ELSE IF chunks[i + 1].rerankerScore - chunks[i + 2].rerankerScore
                 > cfg.scoreGapThreshold
            THEN Return(slice0(chunks, i + 1))
            ELSE AdaptiveScan(chunks, cfg, i + 1)
  ELSE Return(slice0(chunks, cfg.max))

\* variant: the scan starts at index 0, below the floor
selectAdaptiveTopK_fromZero(chunks, cfg) ==
  IF Len(chunks) <= cfg.min
  THEN Return(chunks)
  ELSE AdaptiveScan(chunks, cfg, 0)

selectAdaptiveTopK(chunks, cfg) ==
  IF Len(chunks) <= cfg.min
  THEN Return(chunks)
  ELSE AdaptiveScan(chunks, cfg, cfg.min - 1)

\* jinaResults.results.map(...): chunks[result.index] is undefined for an
\* index out of range and reading its score throws
MapResults(chunks, results) ==
  IF \E k \in 1..Len(results) : results[k].index >= Len(chunks)
  THEN Throw(Err("TypeError", TypeErrorMessage))
  ELSE Return([k \in 1..Len(results) |->
                 [chunk |-> chunks[results[k].index + 1],
                  originalScore |-> ScoreOrZero(chunks[results[k].index + 1]),
                  rerankerScore |-> results[k].relevance_score]])

\* variant: the filter compares with >
FilterByMinScore_strict(scoredChunks, cfg) ==
  LET Passes(sc) == sc.rerankerScore > cfg.minScore
  IN  SelectSeq(scoredChunks, Passes)

FilterByMinScore(scoredChunks, cfg) ==
  LET Passes(sc) == sc.rerankerScore >= cfg.minScore
  IN  SelectSeq(scoredChunks, Passes)

\* the try block of rerankChunks after callJinaRerankerWithRetry has returned
\* data: mapping, filter, adaptive top-k, metrics, logging
ProcessResponse(chunks, data, cfg) ==
  IF ~data.hasResults
  THEN Throw(Err("TypeError", TypeErrorMessage))
  ELSE
    LET mapped == MapResults(chunks, data.results) IN
    IF mapped.thrown THEN mapped
    ELSE
      LET filteredChunks == FilterByMinScore(mapped.value, cfg)
          selected ==
            IF cfg.adaptiveTopK.enabled /\ Len(filteredChunks) > 0
            THEN selectAdaptiveTopK(filteredChunks, cfg.adaptiveTopK)
            ELSE Return(filteredChunks)
      IN  IF selected.thrown THEN selected
          ELSE IF ~data.hasUsage
               THEN Throw(Err("TypeError", TypeErrorMessage))
               ELSE Return(
                 [chunks |-> selected.value,
                  metrics |-> [originalCount |-> Len(chunks),
                               filteredCount |-> Len(chunks) - Len(filteredChunks),
                               finalCount |-> Len(selected.value)],
                  terminal |-> "success"])

\* variant: the catch handles only the errors callJinaReranker constructs
\* (name "Error") and lets a TypeError or SyntaxError escape
rerankChunksCatch_rethrow(chunks, tried) ==
  IF tried.thrown /\ tried.error.name = "Error"
  THEN Return(FallbackResult(chunks))
  ELSE tried

\* the catch of rerankChunks: whatever the try block threw becomes the
\* fallback result
rerankChunksCatch(chunks, tried) ==
  IF tried.thrown THEN Return(FallbackResult(chunks)) ELSE tried

\* the continuation of retrieveContext after "await rerankChunks(...)"
\* (outcome.value.chunks.map(sc => ({...sc.chunk, rerankerScore}))), and its
\* catch
RetrievalOf(outcome) ==
  IF outcome.thrown
  THEN [success |-> FALSE, chunks |-> <<>>, reranked |-> FALSE,
        error |-> outcome.error.message]
  ELSE [success |-> TRUE,
        chunks |-> [i \in 1..Len(outcome.value.chunks) |->
                      [id |-> outcome.value.chunks[i].chunk.id,
                       score |-> outcome.value.chunks[i].chunk.score,
                       rerankerScore |-> outcome.value.chunks[i].rerankerScore]],
        reranked |-> TRUE,
        error |-> <<>>]

\* ------------------------------------------------------------------------
\* Texts handed to the chunker
\* ------------------------------------------------------------------------
\* A text is a sequence of symbols: "x" is a group of LettersPerUnit letters
\* that the tokenizer's vocabulary holds as one entry, "." ends a sentence,
\* " " and "\n" are themselves.  No symbol is a bracket, a backtick or part
\* of a URL, so the replacements of quotes, code blocks and links in
\* preprocessContent (steps 2 to 4) have nothing to match.
MaxSymbols == 6
LettersPerUnit == 3
MaxTokensBound == 4
MaxOverlap == 2

Alphabet == { "x", ".", " ", "\n" }

Whitespace == { " ", "\n", "\r" }

Newlines == { "\n", "\r" }

\* string.length
RECURSIVE length(_)
length(text) ==
  IF text = <<>> THEN 0
  ELSE (IF Head(text) = "x" THEN LettersPerUnit ELSE 1) + length(Tail(text))

\* the subsequence of text at the indexes in keep
RECURSIVE Pick(_, _, _)
Pick(text, keep, i) ==
  IF i > Len(text) THEN <<>>
  ELSE (IF i \in keep THEN <<text[i]>> ELSE <<>>) \o Pick(text, keep, i + 1)

\* the last index of the run of symbols of set S that starts at index i
RunEnd(text, i, S) ==
  CHOOSE e \in i..Len(text) :
    /\ \A k \in i..e : text[k] \in S
    /\ e = Len(text) \/ text[e + 1] \notin S

\* String.prototype.trim
trim(text) ==
  Pick(text,
       { i \in 1..Len(text) :
           /\ \E j \in 1..i : text[j] \notin Whitespace
           /\ \E j \in i..Len(text) : text[j] \notin Whitespace },
       1)

\* ------------------------------------------------------------------------
\* preprocessContent and isValidContent
\* ------------------------------------------------------------------------
\* processed.replace(/\r\n/g, '\n')
NormalizeLineEndings(text) ==
  Pick(text,
       { i \in 1..Len(text) :
           ~(text[i] = "\r" /\ i < Len(text) /\ text[i + 1] = "\n") },
       1)

\* processed.replace(/\n{3,}/g, '\n\n')
CollapseNewlines(text) ==
  Pick(text,
       { i \in 1..Len(text) :
           ~(i >= 3 /\ text[i] = "\n" /\ text[i - 1] = "\n" /\ text[i - 2] = "\n") },
       1)

\* processed.replace(/ {2,}/g, ' ')
CollapseSpaces(text) ==
  Pick(text,
       { i \in 1..Len(text) : ~(i >= 2 /\ text[i] = " " /\ text[i - 1] = " ") },
       1)

\* processed.split('\n').map(line => line.trim()).join('\n')
TrimLines(text) ==
  Pick(text,
       { i \in 1..Len(text) :
           \/ text[i] = "\n"
           \/ /\ \E j \in 1..i :
                   /\ text[j] \notin Whitespace
                   /\ \A k \in j..i : text[k] # "\n"
              /\ \E j \in i..Len(text) :
                   /\ text[j] \notin Whitespace
                   /\ \A k \in i..j : text[k] # "\n" },
       1)

preprocessContent(content) ==
  IF content.kind # "string" \/ content.text = <<>>
  THEN <<>>
  ELSE trim(TrimLines(CollapseSpaces(CollapseNewlines(
         NormalizeLineEndings(content.text)))))

MinContentLength == 10

isValidContent(text) ==
  LET trimmed == trim(text)
      nonWhitespace == SelectSeq(trimmed, LAMBDA c : c \notin Whitespace)
  IN  /\ text # <<>>
      /\ length(trimmed) >= MinContentLength
      \* nonWhitespaceRatio >= 0.3
      /\ 10 * length(nonWhitespace) >= 3 * length(trimmed)

\* ------------------------------------------------------------------------
\* The encoder (tiktoken, cl100k_base)
\* ------------------------------------------------------------------------
\* The encoder first cuts the text into pieces: a word with the space before
\* it, a run of punctuation with the space before it and the line breaks
\* after it, a run of white space.  It then joins the symbols of a piece into
\* the longest entries of its vocabulary.  The vocabulary holds "x", " x" and
\* " xx": as for most words of cl100k_base, the two-unit word has an entry
\* with its leading space and none without it.  A piece of punctuation or
\* white space is one entry.

\* the tokens of the word piece text[from..to]; spaced: text[from] = " "
RECURSIVE WordTokens(_, _, _, _)
WordTokens(text, from, to, spaced) ==
  IF from > to THEN <<>>
  ELSE IF spaced /\ to >= from + 2
       THEN <<SubSeq(text, from, from + 2)>> \o WordTokens(text, from + 3, to, FALSE)
       ELSE IF spaced
            THEN <<SubSeq(text, from, from + 1)>>
            ELSE <<SubSeq(text, from, from)>> \o WordTokens(text, from + 1, to, FALSE)

\* the last index of the piece that starts at index i
PieceEnd(text, i) ==
  LET n == Len(text)
      spaced == text[i] = " " /\ i < n /\ text[i + 1] \in {"x", "."}
      first == IF spaced THEN i + 1 ELSE i
  IN  IF text[first] = "x" THEN RunEnd(text, first, {"x"})
      ELSE IF text[first] = "."
      THEN LET p == RunEnd(text, first, {"."})
           IN  IF p < n /\ text[p + 1] \in Newlines
               THEN RunEnd(text, p + 1, Newlines)
               ELSE p
      ELSE LET e == RunEnd(text, i, Whitespace)
               breaks == { k \in i..e : text[k] \in Newlines }
           IN  IF breaks # {}
               THEN CHOOSE k \in breaks : \A m \in breaks : m <= k
               ELSE IF e = n THEN e ELSE e - 1

\* enc.encode(text) from index i on
RECURSIVE EncodeFrom(_, _)
EncodeFrom(text, i) ==
  IF i > Len(text) THEN <<>>
  ELSE LET e == PieceEnd(text, i)
           spaced == text[i] = " " /\ i < Len(text) /\ text[i + 1] = "x"
       IN  (IF text[i] = "x" \/ spaced
            THEN WordTokens(text, i, e, spaced)
            ELSE <<SubSeq(text, i, e)>>)
           \o EncodeFrom(text, e + 1)

encode(text) == EncodeFrom(text, 1)

\* new TextDecoder().decode(enc.decode(tokens))
RECURSIVE decode(_)
decode(toks) ==
  IF toks = <<>> THEN <<>> ELSE Head(toks) \o decode(Tail(toks))

countTokens(text) == Len(encode(text))

\* ------------------------------------------------------------------------
\* splitAtSemanticBoundaries
\* ------------------------------------------------------------------------
\* text.split(/\n\n+/) from index i on, cur being the part read so far
RECURSIVE SplitParagraphs(_, _, _)
SplitParagraphs(text, i, cur) ==
  IF i > Len(text) THEN <<cur>>
  ELSE IF text[i] = "\n" /\ i < Len(text) /\ text[i + 1] = "\n"
       THEN <<cur>> \o SplitParagraphs(text, RunEnd(text, i, {"\n"}) + 1, <<>>)
       ELSE SplitParagraphs(text, i + 1, Append(cur, text[i]))

\* paragraph.split(/(?<=[.!?])\s+/) from index i on
RECURSIVE SplitSentences(_, _, _)
SplitSentences(text, i, cur) ==
  IF i > Len(text) THEN <<cur>>
  ELSE IF i > 1 /\ text[i - 1] = "." /\ text[i] \in Whitespace
       THEN <<cur>> \o SplitSentences(text, RunEnd(text, i, Whitespace) + 1, <<>>)
       ELSE SplitSentences(text, i + 1, Append(cur, text[i]))

\* the loop over the sentences of a paragraph that is too large, from
\* sentence k on
RECURSIVE SentenceLoop(_, _, _, _, _)
SentenceLoop(sentences, k, sentenceSegment, segs, maxTokens) ==
  IF k > Len(sentences)
  THEN [segments |-> segs, sentenceSegment |-> sentenceSegment]
  ELSE LET sentence == sentences[k]
           testSentence == IF sentenceSegment # <<>>
                           THEN sentenceSegment \o <<" ">> \o sentence
                           ELSE sentence
       IN  IF countTokens(testSentence) <= maxTokens
           THEN SentenceLoop(sentences, k + 1, testSentence, segs, maxTokens)
           ELSE SentenceLoop(sentences, k + 1, sentence,
                             IF sentenceSegment # <<>>
                             THEN Append(segs, sentenceSegment) ELSE segs,
                             maxTokens)

\* the loop over the paragraphs, from paragraph k on, and the push of the
\* remaining segment
RECURSIVE ParagraphLoop(_, _, _, _, _)
ParagraphLoop(paragraphs, k, currentSegment, segs, maxTokens) ==
  IF k > Len(paragraphs)
  THEN IF currentSegment # <<>> THEN Append(segs, currentSegment) ELSE segs
  ELSE LET paragraph == paragraphs[k]
           testSegment == IF currentSegment # <<>>
                          THEN currentSegment \o <<"\n", "\n">> \o paragraph
                          ELSE paragraph
           saved == IF currentSegment # <<>>
                    THEN Append(segs, currentSegment) ELSE segs
       IN  IF countTokens(testSegment) <= maxTokens
           THEN ParagraphLoop(paragraphs, k + 1, testSegment, segs, maxTokens)
           ELSE IF countTokens(paragraph) > maxTokens
                THEN LET r == SentenceLoop(SplitSentences(paragraph, 1, <<>>),
                                           1, <<>>, saved, maxTokens)
                     IN  ParagraphLoop(paragraphs, k + 1, r.sentenceSegment,
                                       r.segments, maxTokens)
                ELSE ParagraphLoop(paragraphs, k + 1, paragraph, saved, maxTokens)

splitAtSemanticBoundaries(text, maxTokens) ==
  LET segs == ParagraphLoop(SplitParagraphs(text, 1, <<>>), 1, <<>>, <<>>, maxTokens)
  IN  IF Len(segs) > 0 THEN segs ELSE <<text>>

\* ------------------------------------------------------------------------
\* State
\* ------------------------------------------------------------------------
VARIABLES
  config,      \* the RerankerConfig read from the environment
  caller,      \* "none", "retrieveContext" or "direct" (rerankChunks called itself)
  pc,          \* where the invocation is suspended
  chunks,      \* the candidates handed to rerankChunks
  retryCount,  \* parameter retryCount of callJinaRerankerWithRetry
  attempts,    \* number of fetch calls issued so far
  inFlight,    \* number of HTTP requests issued and not yet resolved
  timerArmed,  \* the abort timer of the current attempt is pending
  elapsed,     \* time since the current attempt was issued
  response,    \* status of the response whose body is being read, 0 if none
  lastError,   \* error with which the current attempt failed
  delays,      \* the delays slept so far, in ms
  jinaResults, \* the parsed response callJinaRerankerWithRetry returned
  outcome,     \* outcome of rerankChunks, once it has ended
  retrieval,   \* RetrievalResult of retrieveContext, once it has ended
  stageError   \* error generateEmbedding or queryVectors rejected with

\* adaptive selection called on its own
VARIABLES
  filtered,    \* the scored chunks handed to selectAdaptiveTopK
  topK,        \* its config: min, max, scoreGapThreshold
  selPc,       \* "idle" before the call, "done" after it
  selection    \* outcome of the call

selectorVars == <<filtered, topK, selPc, selection>>

\* one call of chunkText
VARIABLES
  content,       \* the raw content, or Null
  chunkConfig,   \* the ChunkingConfig: maxTokens, overlap
  encoder,       \* the module-level encoder: "null" or "live"
  cpc,           \* where chunkText is: "idle", "segments", "windowing", "done"
  segments,      \* semanticSegments not yet visited by the for loop
  allChunkTexts, \* allChunkTexts built so far
  tokens,        \* tokens of the segment splitIntoTokenChunks works on
  startIdx,      \* startIdx of its while loop
  tokenChunks,   \* the chunks array of splitIntoTokenChunks
  chunking,      \* outcome of chunkText, once it has ended
  constructed,   \* number of encoders encoding_for_model has returned; the
                 \* encoder reference, when live, is the latest of them
  freed,         \* the encoders free() was called on, by number
  staleUse,      \* an encoder was used after its free()
  doubleFree     \* free() was called on an encoder already freed

\* the encoder and what became of the instances constructed so far
lifecycleVars == <<encoder, constructed, freed, staleUse, doubleFree>>

chunkerVars == <<content, chunkConfig, cpc, segments, allChunkTexts,
                 tokens, startIdx, tokenChunks, chunking, lifecycleVars>>

\* preprocessContent called on its own, and again on what it returned
VARIABLES
  raw,            \* the content handed to preprocessContent, or Null
  ppc,            \* "idle", "once" after the first call, "twice" after the second
  processedOnce,  \* what the first call returned
  processedTwice  \* what the call on processedOnce returned

preVars == <<raw, ppc, processedOnce, processedTwice>>

rerankVars == <<config, caller, pc, chunks, retryCount, attempts, inFlight,
                timerArmed, elapsed, response, lastError, delays, jinaResults,
                outcome, retrieval, stageError>>

\* what an invocation of retrieveContext or rerankChunks leaves alone
pureVars == <<selectorVars, chunkerVars, preVars>>

vars == <<rerankVars, selectorVars, chunkerVars, preVars>>

NoData == [hasResults |-> FALSE, results |-> <<>>, hasUsage |-> FALSE]

NoOutcome == [thrown |-> FALSE, value |-> <<>>, error |-> NoError]

NoRetrieval == [success |-> FALSE, chunks |-> <<>>, reranked |-> FALSE, error |-> <<>>]

\* what generateEmbedding and queryVectors reject with: an Error, or a value
\* that is no Error
UpstreamErrors ==
  { Err("Error", <<"Service", "unavailable">>), Err("string", <<>>) }

instanceofError(e) == e.name \in {"Error", "TypeError", "SyntaxError", "AbortError"}

\* variant: a failed stage degrades to an empty successful retrieval
retrieveContextCatch_degrade(error) ==
  [success |-> TRUE, chunks |-> <<>>, reranked |-> FALSE, error |-> <<>>]

\* the catch of retrieveContext
retrieveContextCatch(error) ==
  [success |-> FALSE, chunks |-> <<>>, reranked |-> FALSE,
   error |-> IF instanceofError(error) THEN error.message
             ELSE <<"Unknown", "retrieval", "error">>]

MaxElapsed == MaxTimeout + 1

RerankInit ==
  /\ config \in Configs
  /\ caller = "none"
  /\ pc = "idle"
  /\ chunks = <<>>
  /\ retryCount = 0
  /\ attempts = 0
  /\ inFlight = 0
  /\ timerArmed = FALSE
  /\ elapsed = 0
  /\ response = 0
  /\ lastError = NoError
  /\ delays = <<>>
  /\ jinaResults = NoData
  /\ outcome = NoOutcome
  /\ retrieval = NoRetrieval
  /\ stageError = NoError

\* no invocation of retrieveContext or rerankChunks in this behaviour
RerankIdle ==
  /\ RerankInit
  /\ config = [enabled |-> FALSE, minScore |-> 1, timeout |-> 1, maxRetries |-> 0,
               adaptiveTopK |-> [enabled |-> FALSE, min |-> 1, max |-> 2,
                                 scoreGapThreshold |-> 0]]

\* no call of selectAdaptiveTopK on its own in this behaviour
SelectorIdle ==
  /\ filtered = <<>>
  /\ topK = [min |-> 1, max |-> 2, scoreGapThreshold |-> 0]
  /\ selPc = "idle"
  /\ selection = NoOutcome

\* no call of chunkText in this behaviour
ChunkerIdle ==
  /\ content = [kind |-> "null", text |-> <<>>]
  /\ chunkConfig = [maxTokens |-> 1, overlap |-> 0]
  /\ encoder = "null"
  /\ cpc = "idle"
  /\ segments = <<>>
  /\ allChunkTexts = <<>>
  /\ tokens = <<>>
  /\ startIdx = 0
  /\ tokenChunks = <<>>
  /\ chunking = NoOutcome
  /\ constructed = 0
  /\ freed = {}
  /\ staleUse = FALSE
  /\ doubleFree = FALSE

\* no call of preprocessContent on its own in this behaviour
PreprocessIdle ==
  /\ raw = [kind |-> "null", text |-> <<>>]
  /\ ppc = "idle"
  /\ processedOnce = <<>>
  /\ processedTwice = <<>>

Init == RerankInit /\ SelectorIdle /\ ChunkerIdle /\ PreprocessIdle

\* ------------------------------------------------------------------------
\* Building blocks of the actions
\* ------------------------------------------------------------------------
\* callJinaReranker up to "await fetch(...)": arm the abort timer, issue the
\* request
IssueAttempt ==
  /\ pc' = "fetching"
  /\ lastError' = NoError
  /\ attempts' = attempts + 1
  /\ inFlight' = inFlight + 1
  /\ timerArmed' = TRUE
  /\ elapsed' = 0
  /\ response' = 0

\* rerankChunks has ended with outcome o; the caller continues
Finish(o) ==
  /\ pc' = "done"
  /\ outcome' = o
  /\ retrieval' = IF caller' = "retrieveContext" THEN RetrievalOf(o) ELSE retrieval
  /\ timerArmed' = FALSE
  /\ elapsed' = 0
  /\ response' = 0

\* variant: the early return is taken for a disabled reranker only
rerankChunks_noEmptyCheck(cs) ==
  /\ chunks' = cs
  /\ retryCount' = 0
  /\ IF ~config.enabled
     THEN /\ Finish(Return(DisabledResult(cs)))
          /\ UNCHANGED <<attempts, inFlight, lastError>>
     ELSE /\ IssueAttempt
          /\ UNCHANGED <<outcome, retrieval>>
  /\ UNCHANGED <<config, delays, jinaResults>>

\* rerankChunks(query, cs, config) up to its first await or its early return
rerankChunks(cs) ==
  /\ chunks' = cs
  /\ retryCount' = 0
  /\ IF ~config.enabled \/ Len(cs) = 0
     THEN /\ Finish(Return(DisabledResult(cs)))
          /\ UNCHANGED <<attempts, inFlight, lastError>>
     ELSE /\ IssueAttempt
          /\ UNCHANGED <<outcome, retrieval>>
  /\ UNCHANGED <<config, delays, jinaResults>>

\* variant: the retry bound is tested with <=
AttemptFailed_offByOne(error) ==
  /\ UNCHANGED <<config, caller, chunks, retryCount, attempts, jinaResults>>
  /\ lastError' = error
  /\ IF retryCount <= config.maxRetries /\ isRetryableError(error)
     THEN /\ pc' = "sleeping"
          /\ delays' = Append(delays, (2 ^ retryCount) * 1000)
          /\ timerArmed' = FALSE
          /\ elapsed' = 0
          /\ response' = 0
          /\ UNCHANGED <<outcome, retrieval>>
     ELSE /\ Finish(rerankChunksCatch(chunks, Throw(error)))
          /\ UNCHANGED delays

\* variant: the exponent of the delay is the number of the retry, not the
\* number of retries made so far
AttemptFailed_lateExponent(error) ==
  /\ UNCHANGED <<config, caller, chunks, retryCount, attempts, jinaResults>>
  /\ lastError' = error
  /\ IF retryCount < config.maxRetries /\ isRetryableError(error)
     THEN /\ pc' = "sleeping"
          /\ delays' = Append(delays, (2 ^ (retryCount + 1)) * 1000)
          /\ timerArmed' = FALSE
          /\ elapsed' = 0
          /\ response' = 0
          /\ UNCHANGED <<outcome, retrieval>>
     ELSE /\ Finish(rerankChunksCatch(chunks, Throw(error)))
          /\ UNCHANGED delays

\* the catch of callJinaRerankerWithRetry for the error of a failed attempt:
\* sleep and retry, or rethrow into the catch of rerankChunks
AttemptFailed(error) ==
  /\ UNCHANGED <<config, caller, chunks, retryCount, attempts, jinaResults>>
  /\ lastError' = error
  /\ IF retryCount < config.maxRetries /\ isRetryableError(error)
     THEN /\ pc' = "sleeping"
          /\ delays' = Append(delays, (2 ^ retryCount) * 1000)
          /\ timerArmed' = FALSE
          /\ elapsed' = 0
          /\ response' = 0
          /\ UNCHANGED <<outcome, retrieval>>
     ELSE /\ Finish(rerankChunksCatch(chunks, Throw(error)))
          /\ UNCHANGED delays

\* the catch of callJinaReranker: an abort becomes a timeout error, anything
\* else is rethrown as it is
callJinaRerankerCatch(error, cfg) ==
  IF error.name = "AbortError"
  THEN Err("Error", <<"Jina", "API", "timeout", "after">>
                      \o Digits(cfg.timeout) \o <<"ms">>)
  ELSE error

\* new Error(`Jina API error: ${response.status} - ${errorText}`)
HttpError(status, errorText) ==
  Err("Error", <<"Jina", "API", "error:">> \o Digits(status) \o <<"-">> \o errorText)

\* ------------------------------------------------------------------------
\* Actions: retrieveContext
\* ------------------------------------------------------------------------
\* retrieveContext is called: generateEmbedding is awaited
RetrieveContext ==
  /\ UNCHANGED <<stageError, pureVars>>
  /\ pc = "idle"
  /\ pc' = "embedding"
  /\ caller' = "retrieveContext"
  /\ UNCHANGED <<config, chunks, retryCount, attempts, inFlight, timerArmed,
                 elapsed, response, lastError, delays, jinaResults, outcome,
                 retrieval>>

\* generateEmbedding rejects: the catch of retrieveContext reports the failure
EmbeddingFails ==
  /\ UNCHANGED pureVars
  /\ \E error \in UpstreamErrors :
       /\ stageError' = error
       /\ retrieval' = retrieveContextCatch(error)
  /\ pc = "embedding"
  /\ pc' = "done"
  /\ UNCHANGED <<config, caller, chunks, retryCount, attempts, inFlight,
                 timerArmed, elapsed, response, lastError, delays, jinaResults,
                 outcome>>

\* generateEmbedding resolves: queryVectors is awaited
EmbeddingReturns ==
  /\ UNCHANGED <<stageError, pureVars>>
  /\ pc = "embedding"
  /\ pc' = "searching"
  /\ UNCHANGED <<config, caller, chunks, retryCount, attempts, inFlight,
                 timerArmed, elapsed, response, lastError, delays, jinaResults,
                 outcome, retrieval>>

\* queryVectors rejects
SearchFails ==
  /\ UNCHANGED pureVars
  /\ \E error \in UpstreamErrors :
       /\ stageError' = error
       /\ retrieval' = retrieveContextCatch(error)
  /\ pc = "searching"
  /\ pc' = "done"
  /\ UNCHANGED <<config, caller, chunks, retryCount, attempts, inFlight,
                 timerArmed, elapsed, response, lastError, delays, jinaResults,
                 outcome>>

\* variant: the matches go to rerankChunks even when there are none
SearchReturns_noShortCircuit ==
  /\ UNCHANGED <<stageError, pureVars>>
  /\ pc = "searching"
  /\ UNCHANGED caller
  /\ \E matches \in Candidates : rerankChunks(matches)

\* queryVectors resolves with its matches: no match ends the retrieval, any
\* match goes to rerankChunks
SearchReturns ==
  /\ UNCHANGED <<stageError, pureVars>>
  /\ pc = "searching"
  /\ UNCHANGED caller
  /\ \E matches \in Candidates :
       IF Len(matches) = 0
       THEN /\ pc' = "done"
            /\ retrieval' = [success |-> TRUE, chunks |-> <<>>,
                             reranked |-> FALSE, error |-> <<>>]
            /\ UNCHANGED <<config, chunks, retryCount, attempts, inFlight,
                           timerArmed, elapsed, response, lastError, delays,
                           jinaResults, outcome>>
       ELSE rerankChunks(matches)

\* rerankChunks is called by another caller, with any candidate list
RerankChunksDirect ==
  /\ UNCHANGED <<stageError, pureVars>>
  /\ pc = "idle"
  /\ caller' = "direct"
  /\ \E cs \in Candidates : rerankChunks(cs)

\* ------------------------------------------------------------------------
\* Actions: one attempt (callJinaReranker) and the retry loop
\* ------------------------------------------------------------------------
\* time passes while an attempt is pending; an armed timer fires at
\* config.timeout at the latest
Tick ==
  /\ UNCHANGED <<stageError, pureVars>>
  /\ pc \in {"fetching", "reading"}
  /\ elapsed < MaxElapsed
  /\ timerArmed => elapsed < config.timeout
  /\ elapsed' = elapsed + 1
  /\ UNCHANGED <<config, caller, pc, chunks, retryCount, attempts, inFlight,
                 timerArmed, response, lastError, delays, jinaResults, outcome,
                 retrieval>>

\* variant: the timeout rejects the attempt without aborting the request
TimerFires_noAbort ==
  /\ UNCHANGED <<stageError, pureVars>>
  /\ pc = "fetching"
  /\ timerArmed
  /\ elapsed >= config.timeout
  /\ inFlight' = inFlight
  /\ AttemptFailed(callJinaRerankerCatch(Err("AbortError", <<"aborted">>), config))

\* the timer fires: controller.abort() ends the request and makes fetch
\* reject with an AbortError
TimerFires ==
  /\ UNCHANGED <<stageError, pureVars>>
  /\ pc = "fetching"
  /\ timerArmed
  /\ elapsed >= config.timeout
  /\ inFlight' = inFlight - 1
  /\ AttemptFailed(callJinaRerankerCatch(Err("AbortError", <<"aborted">>), config))

\* fetch rejects (connection failure)
FetchRejects ==
  /\ UNCHANGED <<stageError, pureVars>>
  /\ pc = "fetching"
  /\ inFlight' = inFlight - 1
  /\ \E m \in NetworkMessages :
       AttemptFailed(callJinaRerankerCatch(Err("TypeError", m), config))

\* fetch resolves with the status line and headers: clearTimeout, then the
\* body is awaited (response.text() or response.json())
FetchResolves ==
  /\ UNCHANGED <<stageError, pureVars>>
  /\ pc = "fetching"
  /\ \E status \in Statuses : response' = status
  /\ pc' = "reading"
  /\ timerArmed' = FALSE
  /\ UNCHANGED <<config, caller, chunks, retryCount, attempts, inFlight,
                 elapsed, lastError, delays, jinaResults, outcome, retrieval>>

\* reading the body rejects (connection failure)
BodyReadFails ==
  /\ UNCHANGED <<stageError, pureVars>>
  /\ pc = "reading"
  /\ inFlight' = inFlight - 1
  /\ \E m \in NetworkMessages :
       AttemptFailed(callJinaRerankerCatch(Err("TypeError", m), config))

\* response.text() of a non-OK response resolves
ErrorTextArrives ==
  /\ UNCHANGED <<stageError, pureVars>>
  /\ pc = "reading"
  /\ ~ok(response)
  /\ inFlight' = inFlight - 1
  /\ \E errorText \in ErrorTexts :
       AttemptFailed(callJinaRerankerCatch(HttpError(response, errorText), config))

\* response.json() of an OK response rejects: the body is not JSON
JsonInvalid ==
  /\ UNCHANGED <<stageError, pureVars>>
  /\ pc = "reading"
  /\ ok(response)
  /\ inFlight' = inFlight - 1
  /\ \E m \in SyntaxMessages :
       AttemptFailed(callJinaRerankerCatch(Err("SyntaxError", m), config))

\* response.json() of an OK response resolves: rerankChunks maps, filters,
\* selects and returns, or its catch falls back
JsonArrives ==
  /\ UNCHANGED <<stageError, pureVars>>
  /\ pc = "reading"
  /\ ok(response)
  /\ UNCHANGED <<config, caller, chunks, retryCount, attempts, lastError, delays>>
  /\ inFlight' = inFlight - 1
  /\ \E data \in JsonBodies(Len(chunks)) :
       /\ jinaResults' = data
       /\ Finish(rerankChunksCatch(chunks, ProcessResponse(chunks, data, config)))

\* sleep(delay) resolves: callJinaRerankerWithRetry(..., retryCount + 1)
\* issues the next attempt
SleepElapsed ==
  /\ UNCHANGED <<stageError, pureVars>>
  /\ pc = "sleeping"
  /\ retryCount' = retryCount + 1
  /\ IssueAttempt
  /\ UNCHANGED <<config, caller, chunks, delays, jinaResults, outcome, retrieval>>

Next ==
  \/ RetrieveContext
  \/ EmbeddingFails
  \/ EmbeddingReturns
  \/ SearchFails
  \/ SearchReturns
  \/ RerankChunksDirect
  \/ Tick
  \/ TimerFires
  \/ FetchRejects
  \/ FetchResolves
  \/ BodyReadFails
  \/ ErrorTextArrives
  \/ JsonInvalid
  \/ JsonArrives
  \/ SleepElapsed

Spec == Init /\ [][Next]_vars

\* The event loop runs every callback that is due: calls are made, time
\* passes up to the expiry of a pending timer, a due timer fires, a sleep
\* ends.  Nothing obliges the embedding service, the vector index or the
\* scoring service to answer.
FairSpec ==
  /\ Init
  /\ [][Next]_vars
  /\ WF_vars(RetrieveContext \/ RerankChunksDirect)
  /\ WF_vars(Tick /\ timerArmed)
  /\ WF_vars(TimerFires)
  /\ WF_vars(SleepElapsed)

\* ------------------------------------------------------------------------
\* selectAdaptiveTopK called on its own, on any list of scored chunks
\* ------------------------------------------------------------------------
MaxFiltered == 4

\* the scored chunks of a list differ in their rerankerScore only
ScoredOfLen(n) ==
  { [i \in 1..n |-> [chunk |-> [id |-> i - 1, score |-> <<0>>],
                     originalScore |-> 0,
                     rerankerScore |-> f[i]]] : f \in [1..n -> Scores] }

ScoredLists == UNION { ScoredOfLen(n) : n \in 0..MaxFiltered }

\* min, max and scoreGapThreshold as the environment can set them: nothing
\* in getRerankerConfigFromEnv relates min to max
TopKConfigs ==
  [min : 0..(MaxFiltered - 1), max : 0..MaxFiltered, scoreGapThreshold : 0..1]

SelectorInit ==
  /\ filtered \in ScoredLists
  /\ topK \in TopKConfigs
  /\ selPc = "idle"
  /\ selection = NoOutcome

SelectAdaptiveTopK ==
  /\ selPc = "idle"
  /\ selPc' = "done"
  /\ selection' = selectAdaptiveTopK(filtered, topK)
  /\ UNCHANGED <<filtered, topK, rerankVars, chunkerVars, preVars>>

SelectorNext == SelectAdaptiveTopK

SelectorStart == RerankIdle /\ SelectorInit /\ ChunkerIdle /\ PreprocessIdle

SelectorSpec == SelectorStart /\ [][SelectorNext]_vars

\* ------------------------------------------------------------------------
\* preprocessContent called on any content, then on its own output
\* ------------------------------------------------------------------------
\* the symbols of raw content: those of Alphabet and the carriage return
RawAlphabet == Alphabet \cup { "\r" }

RawContents ==
  { [kind |-> "null", text |-> <<>>] } \cup
  { [kind |-> "string", text |-> t] :
      t \in UNION { [1..n -> RawAlphabet] : n \in 0..MaxSymbols } }

PreprocessInit ==
  /\ raw \in RawContents
  /\ ppc = "idle"
  /\ processedOnce = <<>>
  /\ processedTwice = <<>>

\* preprocessContent(raw)
PreprocessContent ==
  /\ ppc = "idle"
  /\ ppc' = "once"
  /\ processedOnce' = preprocessContent(raw)
  /\ UNCHANGED <<raw, processedTwice, rerankVars, selectorVars, chunkerVars>>

\* preprocessContent(processedOnce)
PreprocessAgain ==
  /\ ppc = "once"
  /\ ppc' = "twice"
  /\ processedTwice' = preprocessContent([kind |-> "string", text |-> processedOnce])
  /\ UNCHANGED <<raw, processedOnce, rerankVars, selectorVars, chunkerVars>>

PreprocessNext ==
  \/ PreprocessContent
  \/ PreprocessAgain

PreprocessStart == RerankIdle /\ SelectorIdle /\ ChunkerIdle /\ PreprocessInit

PreprocessSpec == PreprocessStart /\ [][PreprocessNext]_vars

\* ------------------------------------------------------------------------
\* chunkText called once, on any content and config
\* ------------------------------------------------------------------------
Texts == UNION { [1..n -> Alphabet] : n \in 0..MaxSymbols }

Contents ==
  { [kind |-> "null", text |-> <<>>] } \cup
  { [kind |-> "string", text |-> t] : t \in Texts }

\* maxTokens and overlap as the caller passes them: nothing in chunkText
\* relates the two
ChunkConfigs == [maxTokens : 1..MaxTokensBound, overlap : 0..MaxOverlap]

\* the while loop of splitIntoTokenChunks is followed for at most MaxWindows
\* iterations
MaxWindows == MaxSymbols + 1

ChunkerInit ==
  /\ content \in Contents
  /\ chunkConfig \in ChunkConfigs
  /\ encoder = "null"
  /\ cpc = "idle"
  /\ segments = <<>>
  /\ allChunkTexts = <<>>
  /\ tokens = <<>>
  /\ startIdx = 0
  /\ tokenChunks = <<>>
  /\ chunking = NoOutcome
  /\ constructed = 0
  /\ freed = {}
  /\ staleUse = FALSE
  /\ doubleFree = FALSE

\* at most MaxEncoders encoders are constructed in a behaviour
MaxEncoders == 3

\* variant: an encoder is constructed at every call
getEncoder_noCheck(ref, count, built) ==
  IF built
  THEN [thrown |-> FALSE, encoder |-> "live", constructed |-> count + 1]
  ELSE [thrown |-> TRUE, encoder |-> ref, constructed |-> count]

\* getEncoder(): ref is the module-level encoder, count the number of
\* encoders constructed so far, built whether encoding_for_model returns;
\* yields the reference and the count after the call
getEncoder(ref, count, built) ==
  IF ref = "null"
  THEN IF built
       THEN [thrown |-> FALSE, encoder |-> "live", constructed |-> count + 1]
       ELSE [thrown |-> TRUE, encoder |-> ref, constructed |-> count]
  ELSE [thrown |-> FALSE, encoder |-> ref, constructed |-> count]

\* variant: the encoder is freed and the reference is kept
cleanup_keepRef(ref, count, released) ==
  IF ref # "null"
  THEN [encoder |-> ref, freed |-> released \cup {count},
        doubleFree |-> count \in released]
  ELSE [encoder |-> ref, freed |-> released, doubleFree |-> FALSE]

\* cleanup(): released are the encoders freed so far
cleanup(ref, count, released) ==
  IF ref # "null"
  THEN [encoder |-> "null", freed |-> released \cup {count},
        doubleFree |-> count \in released]
  ELSE [encoder |-> ref, freed |-> released, doubleFree |-> FALSE]

\* Array.prototype.slice(start, end)
slice(arr, start, end) ==
  LET n == Len(arr)
      from == IF start < 0 THEN (IF n + start < 0 THEN 0 ELSE n + start)
              ELSE IF start > n THEN n ELSE start
      to == IF end < 0 THEN (IF n + end < 0 THEN 0 ELSE n + end)
            ELSE IF end > n THEN n ELSE end
  IN  SubSeq(arr, from + 1, to)

\* the summed length of the first k texts
RECURSIVE LengthBefore(_, _)
LengthBefore(texts, k) ==
  IF k = 0 THEN 0 ELSE LengthBefore(texts, k - 1) + length(texts[k])

\* variant: chunkIndex counts from one
ChunkObjects_oneBased(chunkTexts) ==
  [index \in 1..Len(chunkTexts) |->
     [text |-> chunkTexts[index],
      startIndex |-> LengthBefore(chunkTexts, index - 1),
      endIndex |-> LengthBefore(chunkTexts, index),
      chunkIndex |-> index,
      totalChunks |-> Len(chunkTexts),
      tokenCount |-> countTokens(chunkTexts[index])]]

\* allChunkTexts.map((text, index) => ({...})): index is 0-based in the
\* source, the position in the sequence is index + 1
ChunkObjects(chunkTexts) ==
  [index \in 1..Len(chunkTexts) |->
     [text |-> chunkTexts[index],
      startIndex |-> LengthBefore(chunkTexts, index - 1),
      endIndex |-> LengthBefore(chunkTexts, index),
      chunkIndex |-> index - 1,
      totalChunks |-> Len(chunkTexts),
      tokenCount |-> countTokens(chunkTexts[index])]]

\* the ChunkingResult for content that is not valid
EmptyResult(text) ==
  [chunks |-> <<>>, originalLength |-> length(text), totalTokens |-> 0,
   wasChunked |-> FALSE]

\* the ChunkingResult for content that fits in a single chunk
SingleChunkResult(text, processed, totalTokens) ==
  [chunks |-> << [text |-> processed, startIndex |-> 0,
                  endIndex |-> length(processed), chunkIndex |-> 0,
                  totalChunks |-> 1, tokenCount |-> totalTokens] >>,
   originalLength |-> length(text), totalTokens |-> totalTokens,
   wasChunked |-> FALSE]

\* splitIntoTokenChunks from startIdx on: the windows pushed by the while
\* loop, of which at most left are followed
RECURSIVE WindowsFrom(_, _, _, _)
WindowsFrom(toks, cfg, start, left) ==
  IF ~(start < Len(toks)) \/ left = 0 THEN <<>>
  ELSE LET sum == start + cfg.maxTokens
           endIdx == IF sum < Len(toks) THEN sum ELSE Len(toks)
       IN  <<decode(slice(toks, start, endIdx))>> \o
           (IF endIdx = Len(toks) THEN <<>>
            ELSE WindowsFrom(toks, cfg, start + cfg.maxTokens - cfg.overlap,
                             left - 1))

splitIntoTokenChunks(text, cfg) == WindowsFrom(encode(text), cfg, 0, MaxWindows)

\* the for loop of chunkText over the semantic segments, from segment k on
RECURSIVE SegmentLoop(_, _, _)
SegmentLoop(segs, k, cfg) ==
  IF k > Len(segs) THEN <<>>
  ELSE (IF countTokens(segs[k]) <= cfg.maxTokens
        THEN <<segs[k]>>
        ELSE splitIntoTokenChunks(segs[k], cfg))
       \o SegmentLoop(segs, k + 1, cfg)

\* the ChunkingResult chunkText(text, cfg) returns for a string, the encoder
\* being there
chunkText(text, cfg) ==
  LET processed == preprocessContent([kind |-> "string", text |-> text])
      totalTokens == countTokens(processed)
  IN  IF ~isValidContent(processed) THEN EmptyResult(text)
      ELSE IF totalTokens <= cfg.maxTokens
      THEN SingleChunkResult(text, processed, totalTokens)
      ELSE [chunks |-> ChunkObjects(SegmentLoop(
                         splitAtSemanticBoundaries(processed, cfg.maxTokens),
                         1, cfg)),
            originalLength |-> length(text),
            totalTokens |-> totalTokens,
            wasChunked |-> TRUE]

\* chunkText(content, config) up to the for loop over the semantic segments
ChunkText ==
  /\ cpc = "idle"
  /\ UNCHANGED <<content, chunkConfig, allChunkTexts, tokens, startIdx,
                 tokenChunks, freed, doubleFree, rerankVars, selectorVars,
                 preVars>>
  /\ IF content.kind = "null"
     THEN \* content.length in the first logger.debug
          /\ chunking' = Throw(Err("TypeError",
                           <<"Cannot", "read", "properties", "of", "null">>))
          /\ cpc' = "done"
          /\ UNCHANGED <<encoder, segments, constructed, staleUse>>
     ELSE LET processed == preprocessContent(content) IN
          IF ~isValidContent(processed)
          THEN /\ chunking' = Return(EmptyResult(content.text))
               /\ cpc' = "done"
               /\ UNCHANGED <<encoder, segments, constructed, staleUse>>
          ELSE \E built \in BOOLEAN :
                 LET got == getEncoder(encoder, constructed, built) IN
                 IF got.thrown
                 THEN \* getEncoder: encoding_for_model throws
                      /\ chunking' = Throw(Err("Error",
                           <<"Failed", "to", "initialize", "tiktoken", "encoder">>))
                      /\ cpc' = "done"
                      /\ UNCHANGED <<encoder, segments, constructed, staleUse>>
                 ELSE /\ got.constructed <= MaxEncoders
                      /\ encoder' = got.encoder
                      /\ constructed' = got.constructed
                      /\ staleUse' = (staleUse \/ got.constructed \in freed)
                      /\ LET totalTokens == countTokens(processed) IN
                         IF totalTokens <= chunkConfig.maxTokens
                         THEN /\ chunking' = Return(SingleChunkResult(
                                     content.text, processed, totalTokens))
                              /\ cpc' = "done"
                              /\ UNCHANGED segments
                         ELSE /\ segments' = splitAtSemanticBoundaries(
                                     processed, chunkConfig.maxTokens)
                              /\ cpc' = "segments"
                              /\ UNCHANGED chunking

\* variant: a segment is taken as it is, whatever its size
NextSegment_asIs ==
  /\ cpc = "segments"
  /\ segments # <<>>
  /\ segments' = Tail(segments)
  /\ allChunkTexts' = Append(allChunkTexts, Head(segments))
  /\ UNCHANGED <<content, chunkConfig, cpc, tokens, startIdx,
                 tokenChunks, chunking, lifecycleVars, rerankVars, selectorVars,
                 preVars>>

\* one turn of "for (const segment of semanticSegments)": a segment that fits
\* is pushed, any other goes to splitIntoTokenChunks
NextSegment ==
  /\ cpc = "segments"
  /\ segments # <<>>
  /\ segments' = Tail(segments)
  /\ UNCHANGED <<content, chunkConfig, chunking, lifecycleVars, rerankVars,
                 selectorVars, preVars>>
  /\ IF countTokens(Head(segments)) <= chunkConfig.maxTokens
     THEN /\ allChunkTexts' = Append(allChunkTexts, Head(segments))
          /\ UNCHANGED <<cpc, tokens, startIdx, tokenChunks>>
     ELSE /\ tokens' = encode(Head(segments))
          /\ startIdx' = 0
          /\ tokenChunks' = <<>>
          /\ cpc' = "windowing"
          /\ UNCHANGED allChunkTexts

\* variant: the loop has no break at the end of the tokens and goes on
\* until startIdx has passed them
WindowStep_noBreak ==
  /\ cpc = "windowing"
  /\ Len(tokenChunks) < MaxWindows
  /\ UNCHANGED <<content, chunkConfig, segments, tokens, chunking,
                 lifecycleVars, rerankVars, selectorVars,
                 preVars>>
  /\ IF ~(startIdx < Len(tokens))
     THEN /\ allChunkTexts' = allChunkTexts \o tokenChunks
          /\ cpc' = "segments"
          /\ UNCHANGED <<startIdx, tokenChunks>>
     ELSE LET sum == startIdx + chunkConfig.maxTokens
              endIdx == IF sum < Len(tokens) THEN sum ELSE Len(tokens)
              chunkTokens == slice(tokens, startIdx, endIdx)
          IN  /\ tokenChunks' = Append(tokenChunks, decode(chunkTokens))
              /\ startIdx' = startIdx + chunkConfig.maxTokens
                                    - chunkConfig.overlap
              /\ UNCHANGED <<allChunkTexts, cpc>>

\* one turn of the while loop of splitIntoTokenChunks; on leaving the loop
\* its chunks are pushed to allChunkTexts
WindowStep ==
  /\ cpc = "windowing"
  /\ Len(tokenChunks) < MaxWindows
  /\ UNCHANGED <<content, chunkConfig, segments, tokens, chunking,
                 lifecycleVars, rerankVars, selectorVars,
                 preVars>>
  /\ IF ~(startIdx < Len(tokens))
     THEN /\ allChunkTexts' = allChunkTexts \o tokenChunks
          /\ cpc' = "segments"
          /\ UNCHANGED <<startIdx, tokenChunks>>
     ELSE LET sum == startIdx + chunkConfig.maxTokens
              endIdx == IF sum < Len(tokens) THEN sum ELSE Len(tokens)
              chunkTokens == slice(tokens, startIdx, endIdx)
              pushed == Append(tokenChunks, decode(chunkTokens))
          IN  /\ tokenChunks' = pushed
              /\ IF endIdx = Len(tokens)
                 THEN /\ allChunkTexts' = allChunkTexts \o pushed
                      /\ cpc' = "segments"
                      /\ UNCHANGED startIdx
                 ELSE /\ startIdx' = startIdx + chunkConfig.maxTokens
                                       - chunkConfig.overlap
                      /\ UNCHANGED <<allChunkTexts, cpc>>

\* after the last segment: the chunk objects and the ChunkingResult
CreateChunks ==
  /\ cpc = "segments"
  /\ segments = <<>>
  /\ chunking' = Return(
       [chunks |-> ChunkObjects(allChunkTexts),
        originalLength |-> length(content.text),
        totalTokens |-> countTokens(preprocessContent(content)),
        wasChunked |-> TRUE])
  /\ cpc' = "done"
  /\ UNCHANGED <<content, chunkConfig, segments, allChunkTexts, tokens,
                 startIdx, tokenChunks, lifecycleVars, rerankVars, selectorVars,
                 preVars>>

ChunkerNext ==
  \/ ChunkText
  \/ NextSegment
  \/ WindowStep
  \/ CreateChunks

ChunkerStart == RerankIdle /\ SelectorIdle /\ ChunkerInit /\ PreprocessIdle

ChunkerSpec == ChunkerStart /\ [][ChunkerNext]_vars

\* ------------------------------------------------------------------------
\* One process: calls of chunkText, countTokens and cleanup, one after the
\* other.  The three functions are synchronous, so a call runs to its end
\* before the next one starts.
\* ------------------------------------------------------------------------
\* the contents handed to chunkText: null, too short, four letter groups
ProcessContents ==
  { [kind |-> "null", text |-> <<>>],
    [kind |-> "string", text |-> <<"x">>],
    [kind |-> "string", text |-> <<"x", "x", "x", "x">>] }

\* with maxTokens = 4 the four letter groups are one chunk, with
\* maxTokens = 2 they go through the token windows
ProcessConfigs ==
  { [maxTokens |-> 4, overlap |-> 1], [maxTokens |-> 2, overlap |-> 1] }

ProcessInit ==
  /\ content \in ProcessContents
  /\ chunkConfig \in ProcessConfigs
  /\ encoder = "null"
  /\ cpc = "idle"
  /\ segments = <<>>
  /\ allChunkTexts = <<>>
  /\ tokens = <<>>
  /\ startIdx = 0
  /\ tokenChunks = <<>>
  /\ chunking = NoOutcome
  /\ constructed = 0
  /\ freed = {}
  /\ staleUse = FALSE
  /\ doubleFree = FALSE

\* variant: allChunkTexts is a module-level array that outlives the call
NextCall_keepChunks ==
  /\ cpc = "done"
  /\ cpc' = "idle"
  /\ content' \in ProcessContents
  /\ chunkConfig' \in ProcessConfigs
  /\ segments' = <<>>
  /\ tokens' = <<>>
  /\ startIdx' = 0
  /\ tokenChunks' = <<>>
  /\ chunking' = NoOutcome
  /\ UNCHANGED <<allChunkTexts, lifecycleVars, rerankVars, selectorVars,
                 preVars>>

\* the caller of chunkText goes on to its next call: the locals of chunkText
\* are new in every call
NextCall ==
  /\ cpc = "done"
  /\ cpc' = "idle"
  /\ content' \in ProcessContents
  /\ chunkConfig' \in ProcessConfigs
  /\ segments' = <<>>
  /\ allChunkTexts' = <<>>
  /\ tokens' = <<>>
  /\ startIdx' = 0
  /\ tokenChunks' = <<>>
  /\ chunking' = NoOutcome
  /\ UNCHANGED <<lifecycleVars, rerankVars, selectorVars,
                 preVars>>

\* countTokens(text) called from outside chunkText
CountTokens ==
  /\ cpc \in {"idle", "done"}
  /\ \E built \in BOOLEAN :
       LET got == getEncoder(encoder, constructed, built) IN
       /\ got.constructed <= MaxEncoders
       /\ encoder' = got.encoder
       /\ constructed' = got.constructed
       /\ staleUse' = (staleUse \/ (~got.thrown /\ got.constructed \in freed))
  /\ UNCHANGED <<content, chunkConfig, cpc, segments, allChunkTexts, tokens,
                 startIdx, tokenChunks, chunking, freed, doubleFree,
                 rerankVars, selectorVars,
                 preVars>>

\* cleanup()
Cleanup ==
  /\ cpc \in {"idle", "done"}
  /\ LET after == cleanup(encoder, constructed, freed) IN
       /\ encoder' = after.encoder
       /\ freed' = after.freed
       /\ doubleFree' = (doubleFree \/ after.doubleFree)
  /\ UNCHANGED <<content, chunkConfig, cpc, segments, allChunkTexts, tokens,
                 startIdx, tokenChunks, chunking, constructed, staleUse,
                 rerankVars, selectorVars,
                 preVars>>

ProcessNext ==
  \/ ChunkText
  \/ NextSegment
  \/ WindowStep
  \/ CreateChunks
  \/ NextCall
  \/ CountTokens
  \/ Cleanup

ProcessStart == RerankIdle /\ SelectorIdle /\ ProcessInit /\ PreprocessIdle

ProcessSpec == ProcessStart /\ [][ProcessNext]_vars

\* ------------------------------------------------------------------------
\* Two logical requests in one process: one is in retrieveContext or
\* rerankChunks, suspended at its awaits, while the other calls chunkText
\* again and again.  chunkText is synchronous: the callbacks of the first
\* request run between two calls of chunkText, never inside one.
\* ------------------------------------------------------------------------
ConcurrentInit ==
  /\ RerankInit
  /\ config = [enabled |-> TRUE, minScore |-> 1, timeout |-> 1, maxRetries |-> 1,
               adaptiveTopK |-> [enabled |-> TRUE, min |-> 1, max |-> 2,
                                 scoreGapThreshold |-> 0]]
  /\ SelectorIdle
  /\ ProcessInit
  /\ PreprocessIdle

\* a callback of the first request runs
RerankStep ==
  /\ cpc \in {"idle", "done"}
  /\ Next

ConcurrentNext ==
  \/ RerankStep
  \/ ChunkText
  \/ NextSegment
  \/ WindowStep
  \/ CreateChunks
  \/ NextCall

ConcurrentSpec == ConcurrentInit /\ [][ConcurrentNext]_vars

\* ------------------------------------------------------------------------
\* Observations on the state
\* ------------------------------------------------------------------------
\* rerankChunks was invoked and has ended
RerankEnded == pc = "done" /\ (caller = "direct" \/ Len(chunks) > 0)

\* the terminal rerankChunks ended in
Terminal ==
  IF ~RerankEnded THEN "none"
  ELSE IF outcome.thrown THEN "thrown"
  ELSE outcome.value.terminal

\* the chunks of the RerankResult
ResultChunks ==
  IF RerankEnded /\ ~outcome.thrown THEN outcome.value.chunks ELSE <<>>

\* ------------------------------------------------------------------------
\* Properties
\* ------------------------------------------------------------------------

\* C1: whatever the scoring service did in any attempt, rerankChunks ends by
\* returning a RerankResult, never by throwing, and retrieveContext reports
\* success for a query whose embedding and similarity search succeeded.
RerankNeverThrows ==
  RerankEnded =>
    /\ ~outcome.thrown
    /\ Terminal \in {"disabled", "success", "fallback"}
    /\ caller = "retrieveContext" => retrieval.success

\* C1 witness: under retrieveContext the service answered 200 with a body
\* lacking results, and the retrieval still reports success
RerankNeverThrows_witness ==
  /\ RerankEnded
  /\ caller = "retrieveContext"
  /\ attempts = 1
  /\ lastError = NoError
  /\ ~jinaResults.hasResults
  /\ Terminal = "fallback"
  /\ retrieval.success

\* C2: in the disabled terminal and in the fallback terminal the result holds
\* every input candidate exactly once, in input order, each with
\* rerankerScore equal to its originalScore.
FallbackKeepsCandidates ==
  Terminal \in {"disabled", "fallback"} =>
    /\ Len(ResultChunks) = Len(chunks)
    /\ \A i \in 1..Len(chunks) :
         /\ ResultChunks[i].chunk = chunks[i]
         /\ ResultChunks[i].rerankerScore = ResultChunks[i].originalScore

\* C2 witness: all retries exhausted on two candidates of different scores
FallbackKeepsCandidates_witness ==
  /\ Terminal = "fallback"
  /\ config.maxRetries >= 1
  /\ attempts = config.maxRetries + 1
  /\ lastError # NoError
  /\ Len(chunks) = 2
  /\ ResultChunks[1].rerankerScore = 1
  /\ ResultChunks[2].rerankerScore = 2

\* C3: the number of HTTP attempts of an invocation never exceeds
\* maxRetries + 1, and it is exactly maxRetries + 1 when the invocation fell
\* back after every attempt failed with a retryable error.
AttemptsBounded ==
  /\ attempts <= config.maxRetries + 1
  /\ (Terminal = "fallback" /\ lastError # NoError /\ isRetryableError(lastError))
       => attempts = config.maxRetries + 1

\* C3 witness: maxRetries = 2, three failed attempts, then the fallback
AttemptsBounded_witness ==
  /\ Terminal = "fallback"
  /\ config.maxRetries = 2
  /\ attempts = 3
  /\ delays = <<1000, 2000>>
  /\ lastError # NoError
  /\ isRetryableError(lastError)

\* an attempt fails in this step
FailedNow == lastError = NoError /\ lastError' # NoError

\* C4: an attempt that fails with a 4xx status (whatever the body text) or
\* with a body that is not JSON ends the invocation: no further attempt.
NoRetryOnClientError ==
  [][ ( /\ FailedNow
        /\ \/ pc = "reading" /\ response >= 400 /\ response <= 499
                             /\ lastError'.name = "Error"
           \/ lastError'.name = "SyntaxError" )
      => (pc' = "done" /\ attempts' = attempts) ]_vars

\* C5: an attempt that fails with a network error, a timeout or a 5xx status
\* while fewer than maxRetries retries were made is followed by the backoff
\* wait and a further attempt.
RetryOnTransientError ==
  [][ ( /\ FailedNow
        /\ retryCount < config.maxRetries
        /\ \/ lastError'.name = "TypeError"
           \/ pc = "fetching" /\ lastError'.name = "Error"
           \/ pc = "reading" /\ response >= 500 /\ response <= 599
                             /\ lastError'.name = "Error" )
      => pc' = "sleeping" ]_vars

\* C6: at most one HTTP request of an invocation is in flight at any time,
\* and none is while the invocation sleeps between attempts or has ended.
SequentialAttempts ==
  /\ inFlight <= 1
  /\ pc \in {"sleeping", "done"} => inFlight = 0
  /\ pc \in {"fetching", "reading"} => inFlight = 1

\* C6 witness: the second attempt is in flight, alone, after one backoff wait
SequentialAttempts_witness ==
  /\ pc = "fetching"
  /\ attempts = 2
  /\ inFlight = 1
  /\ delays = <<1000>>

\* C7: no attempt stays pending beyond config.timeout, and the failure an
\* abort is reported as is one isRetryableError accepts.
AttemptAbortedAtTimeout ==
  /\ pc \in {"fetching", "reading"} => elapsed <= config.timeout
  /\ includes(lastError.message, <<"timeout", "after">>) => isRetryableError(lastError)

\* C8: every invocation that issued an attempt reaches a terminal, even when
\* the scoring service stops answering at any point of the attempt.
RerankTerminates == (pc = "fetching") ~> (pc = "done")

\* C9: rerankerScore is non-increasing along the chunks of every RerankResult.
ScoresDescending ==
  \A i \in 1..(Len(ResultChunks) - 1) :
    ResultChunks[i].rerankerScore >= ResultChunks[i + 1].rerankerScore

\* the results of the response whose relevance_score passes minScore
PassingResults ==
  { k \in 1..Len(jinaResults.results) :
      jinaResults.results[k].relevance_score >= config.minScore }

\* C10: on a successful rerank no returned chunk scores below minScore, the
\* results scoring exactly minScore pass the filter, and filteredCount is the
\* number of input candidates minus the number of results that passed.
FilterAtMinScore ==
  Terminal = "success" =>
    /\ \A i \in 1..Len(ResultChunks) :
         ResultChunks[i].rerankerScore >= config.minScore
    /\ outcome.value.metrics.filteredCount
         = Len(chunks) - Cardinality(PassingResults)
    /\ ~config.adaptiveTopK.enabled =>
         /\ Len(ResultChunks) = Cardinality(PassingResults)
         /\ \A k \in PassingResults :
              \E i \in 1..Len(ResultChunks) :
                /\ ResultChunks[i].chunk = chunks[jinaResults.results[k].index + 1]
                /\ ResultChunks[i].rerankerScore = jinaResults.results[k].relevance_score

\* C10 witness: one result below minScore is dropped, one at minScore is kept
FilterAtMinScore_witness ==
  /\ Terminal = "success"
  /\ ~config.adaptiveTopK.enabled
  /\ Len(chunks) = 2
  /\ Len(jinaResults.results) = 2
  /\ jinaResults.results[1].relevance_score = config.minScore
  /\ jinaResults.results[2].relevance_score < config.minScore
  /\ Len(ResultChunks) = 1
  /\ ResultChunks[1].rerankerScore = config.minScore
  /\ outcome.value.metrics.filteredCount = 1

\* C13: every chunk list retrieveContext returns, whichever terminal the
\* reranker ended in, holds no chunk with rerankerScore < minScore and, with
\* adaptive top-k enabled, at most adaptiveTopK.max chunks.
RetrievedPassedSelection ==
  (pc = "done" /\ caller = "retrieveContext" /\ retrieval.success) =>
    /\ \A i \in 1..Len(retrieval.chunks) :
         retrieval.chunks[i].rerankerScore >= config.minScore
    /\ config.adaptiveTopK.enabled =>
         Len(retrieval.chunks) <= config.adaptiveTopK.max

\* C14: when generateEmbedding or queryVectors fails, retrieveContext ends
\* with success = false and the error, returns no chunks, and the reranker
\* and the scoring service were never called.
UpstreamFailureSurfaces ==
  stageError # NoError =>
    /\ pc = "done"
    /\ ~retrieval.success
    /\ retrieval.error # <<>>
    /\ instanceofError(stageError) => retrieval.error = stageError.message
    /\ retrieval.chunks = <<>>
    /\ ~retrieval.reranked
    /\ attempts = 0 /\ inFlight = 0 /\ chunks = <<>>

\* C14 witness: a stage rejected with an Error and the retrieval reports it
UpstreamFailureSurfaces_witness ==
  /\ caller = "retrieveContext"
  /\ pc = "done"
  /\ stageError = Err("Error", <<"Service", "unavailable">>)
  /\ ~retrieval.success
  /\ retrieval.error = <<"Service", "unavailable">>

\* C15: under retrieveContext no request goes to the scoring service while
\* the embedding or the search is pending, the reranker only ever gets the
\* matches of a search that returned some, and a search without matches ends
\* the retrieval with success and an empty list, the reranker not invoked.
StagesInOrder ==
  caller = "retrieveContext" =>
    /\ pc \in {"embedding", "searching"} =>
         (attempts = 0 /\ inFlight = 0 /\ chunks = <<>>)
    /\ attempts > 0 => (Len(chunks) > 0 /\ stageError = NoError)
    /\ (pc = "done" /\ stageError = NoError /\ chunks = <<>>) =>
         /\ retrieval.success
         /\ retrieval.chunks = <<>>
         /\ ~retrieval.reranked
         /\ attempts = 0

\* C15 witness: the search returned no match
StagesInOrder_witness ==
  /\ caller = "retrieveContext"
  /\ pc = "done"
  /\ stageError = NoError
  /\ chunks = <<>>
  /\ retrieval.success
  /\ retrieval.chunks = <<>>

\* ------------------------------------------------------------------------
\* Properties of selectAdaptiveTopK (SelectorSpec)
\* ------------------------------------------------------------------------
Minimum(a, b) == IF a <= b THEN a ELSE b

\* the indexes at which the list drops by more than the threshold
GapAt(i) ==
  filtered[i + 1].rerankerScore - filtered[i + 2].rerankerScore
    > topK.scoreGapThreshold

\* C11: for every non-empty list and every min, max and threshold the
\* selector returns a list of L chunks with min(min, count) <= L <= max, and
\* a list of at most min chunks is returned unchanged.
AdaptiveBounds ==
  (selPc = "done" /\ Len(filtered) > 0) =>
    /\ ~selection.thrown
    /\ Minimum(topK.min, Len(filtered)) <= Len(selection.value)
    /\ Len(selection.value) <= topK.max
    /\ Len(filtered) <= topK.min => selection.value = filtered

\* the indexes i with min-1 <= i <= min(max-1, length-2) that carry a gap
ScannedGaps ==
  { i \in (topK.min - 1)..Minimum(topK.max - 1, Len(filtered) - 2) : GapAt(i) }

\* C12: with 1 <= min <= max and more than min chunks the selector returns
\* the first i+1 chunks for the smallest scanned index i that carries a gap
\* (a gap below min-1 never cuts), and the first max chunks, or all of them
\* when there are fewer, if no scanned index carries one.
CutAtFirstGap ==
  ( /\ selPc = "done"
    /\ 1 <= topK.min /\ topK.min <= topK.max
    /\ Len(filtered) > topK.min ) =>
    /\ ~selection.thrown
    /\ selection.value =
         IF ScannedGaps # {}
         THEN SubSeq(filtered, 1,
                     1 + CHOOSE i \in ScannedGaps : \A j \in ScannedGaps : i <= j)
         ELSE SubSeq(filtered, 1, Minimum(topK.max, Len(filtered)))

\* C12 witness: a gap at index 0, below the floor min = 2, is passed over
\* and the list of four is cut after index 2, the first scanned gap
CutAtFirstGap_witness ==
  /\ selPc = "done"
  /\ topK.min = 2 /\ topK.max = 4
  /\ Len(filtered) = 4
  /\ GapAt(0) /\ ~GapAt(1) /\ GapAt(2)
  /\ ~selection.thrown
  /\ Len(selection.value) = 3

\* ------------------------------------------------------------------------
\* Properties of chunkText (ChunkerSpec)
\* ------------------------------------------------------------------------
\* chunkText has returned a ChunkingResult
ChunkingReturned == cpc = "done" /\ ~chunking.thrown

\* the chunks of the ChunkingResult
ResultOfChunking == chunking.value

Contiguity ==
  ChunkingReturned =>
    \A i \in 1..Len(ResultOfChunking.chunks) :
      /\ ResultOfChunking.chunks[i].chunkIndex = i - 1
      /\ ResultOfChunking.chunks[i].totalChunks = Len(ResultOfChunking.chunks)

\* C17 witness: a result of three chunks
Contiguity_witness ==
  /\ ChunkingReturned
  /\ Len(ResultOfChunking.chunks) = 3
  /\ ResultOfChunking.chunks[3].chunkIndex = 2

\* C18: in every result wasChunked is true exactly when there is more than
\* one chunk, and valid text of at most maxTokens tokens gives one chunk
\* with wasChunked = false.
WasChunkedIffMany ==
  ChunkingReturned =>
    /\ ResultOfChunking.wasChunked <=> Len(ResultOfChunking.chunks) > 1
    /\ ( /\ isValidContent(preprocessContent(content))
         /\ countTokens(preprocessContent(content)) <= chunkConfig.maxTokens )
         => (Len(ResultOfChunking.chunks) = 1 /\ ~ResultOfChunking.wasChunked)

\* C19: for content that is null or not valid after preprocessing chunkText
\* throws nothing and returns no chunks, totalTokens = 0, wasChunked = false.
InvalidInputEmptyResult ==
  ( /\ cpc = "done"
    /\ \/ content.kind = "null"
       \/ ~isValidContent(preprocessContent(content)) ) =>
    /\ ~chunking.thrown
    /\ ResultOfChunking.chunks = <<>>
    /\ ResultOfChunking.totalTokens = 0
    /\ ~ResultOfChunking.wasChunked

\* C20: with overlap >= maxTokens chunkText ends at once by throwing a
\* configuration error, one whose message names the overlap; it never
\* reaches the token windows.
FailFastOnBadOverlap ==
  chunkConfig.overlap >= chunkConfig.maxTokens =>
    /\ cpc \in {"idle", "done"}
    /\ cpc = "done" =>
         /\ chunking.thrown
         /\ includes(toLowerCase(chunking.error.message), <<"overlap">>)

\* texts[k..] continue the text assembled so far, each after dropping a
\* prefix that repeats the end of what came before it, up to target
RECURSIVE Reassembles(_, _, _, _)
Reassembles(texts, k, assembled, target) ==
  IF k > Len(texts) THEN assembled = target
  ELSE \E d \in 0..Len(texts[k]) :
         /\ d <= Len(assembled)
         /\ SubSeq(texts[k], 1, d)
              = SubSeq(assembled, Len(assembled) - d + 1, Len(assembled))
         /\ Reassembles(texts, k + 1,
                        assembled \o SubSeq(texts[k], d + 1, Len(texts[k])),
                        target)

\* C21: the chunk texts of a result with chunks, joined in chunkIndex order
\* with the repeated overlaps dropped, are the processed text: nothing is
\* lost and nothing else is repeated.
ConcatenationReproducesText ==
  (ChunkingReturned /\ Len(ResultOfChunking.chunks) > 0) =>
    Reassembles([i \in 1..Len(ResultOfChunking.chunks) |->
                   ResultOfChunking.chunks[i].text],
                1, <<>>, preprocessContent(content))

\* ------------------------------------------------------------------------
\* Properties of the encoder (ProcessSpec)
\* ------------------------------------------------------------------------
\* C22 as stated: over any sequence of countTokens, chunkText and cleanup
\* calls the encoder is constructed at most once.
ConstructedAtMostOnce == constructed <= 1

\* C22 amended: an encoder is constructed only when none is live: at most
\* one more than were freed, and at most one is not freed at any time.
ConstructedOnlyWhenNull ==
  /\ constructed <= Cardinality(freed) + 1
  /\ encoder = "null" => constructed = Cardinality(freed)

\* C22 witness: the second encoder is live after a cleanup freed the first
ConstructedOnlyWhenNull_witness ==
  /\ constructed = 2
  /\ freed = {1}
  /\ encoder = "live"
  /\ cpc = "done" /\ ~chunking.thrown

\* ------------------------------------------------------------------------
\* Properties of concurrent requests (ConcurrentSpec)
\* ------------------------------------------------------------------------
\* the state of the call of chunkText that is under way
chunkCallVars == <<content, chunkConfig, cpc, segments, allChunkTexts, tokens,
                   startIdx, tokenChunks, chunking>>

\* chunkText ended as it ends when it is the only call of the process: with
\* the TypeError for null content, with the failure of the encoder, or with
\* the result its arguments determine
EndsAsAlone ==
  cpc' = "done" =>
    IF chunking'.thrown
    THEN \/ content'.kind = "null" /\ chunking'.error.name = "TypeError"
         \/ /\ content'.kind = "string"
            /\ encoder' = "null"
            /\ includes(chunking'.error.message, <<"initialize">>)
    ELSE /\ content'.kind = "string"
         /\ chunking'.value = chunkText(content'.text, chunkConfig')

PreprocessIdempotent == ppc = "twice" => processedTwice = processedOnce

\* C26: the output of preprocessContent has no CRLF, no three newlines in a
\* row, no two spaces in a row, no white space at the start or end of a line
\* and none at the start or end of the text.
OutputInNormalForm ==
  ppc # "idle" =>
    LET out == processedOnce
        n == Len(out)
    IN  /\ \A i \in 1..n :
             /\ ~(i < n /\ out[i] = "\r" /\ out[i + 1] = "\n")
             /\ ~(i + 2 <= n /\ out[i] = "\n" /\ out[i + 1] = "\n" /\ out[i + 2] = "\n")
             /\ ~(i < n /\ out[i] = " " /\ out[i + 1] = " ")
             /\ (out[i] \in Whitespace \ {"\n"}) =>
                  /\ i > 1 /\ out[i - 1] # "\n"
                  /\ i < n /\ out[i + 1] # "\n"
        /\ n > 0 => (out[1] \notin Whitespace /\ out[n] \notin Whitespace)

\* ------------------------------------------------------------------------
\* Properties of the early return and of the retry delays (Spec)
\* ------------------------------------------------------------------------
\* C25: with the reranker disabled, or with no candidates, rerankChunks
\* issues no HTTP request and returns every candidate, in order, with its
\* original score as rerankerScore, rerankingLatency = 0 and
\* filteredCount = 0.
DisabledMakesNoAttempt ==
  ( \/ ~config.enabled
    \/ (caller = "direct" /\ pc # "idle" /\ chunks = <<>>) ) =>
    /\ attempts = 0
    /\ inFlight = 0
    /\ RerankEnded =>
         /\ ~outcome.thrown
         /\ Len(outcome.value.chunks) = Len(chunks)
         /\ \A i \in 1..Len(chunks) :
              /\ outcome.value.chunks[i].chunk = chunks[i]
              /\ outcome.value.chunks[i].originalScore = ScoreOrZero(chunks[i])
              /\ outcome.value.chunks[i].rerankerScore = ScoreOrZero(chunks[i])
         /\ outcome.value.metrics.rerankingLatency = 0
         /\ outcome.value.metrics.filteredCount = 0

\* C25 witness: rerankChunks, enabled, was called with no candidates and has
\* returned
DisabledMakesNoAttempt_witness ==
  /\ config.enabled
  /\ caller = "direct"
  /\ pc = "done"
  /\ chunks = <<>>
  /\ ~outcome.thrown
  /\ outcome.value.chunks = <<>>

\* ------------------------------------------------------------------------
\* Properties of the token windows (ChunkerSpec)
\* ------------------------------------------------------------------------
\* the step of the windows: maxTokens - overlap
Stride == chunkConfig.maxTokens - chunkConfig.overlap

\* the index after the last token of window k (k counts from 0)
WindowEnd(k) ==
  Minimum(k * Stride + chunkConfig.maxTokens, Len(tokens))

\* C27: with 0 <= overlap < maxTokens the windows of a segment of n tokens
\* come to an end; window k is tokens [k*stride, min(k*stride + maxTokens, n));
\* every token is in a window; a window and the next share overlap tokens
\* exactly; the last window, and no other, ends at token n.
WindowsCoverSegment ==
  (chunkConfig.overlap < chunkConfig.maxTokens) =>
    /\ cpc = "windowing" =>
         /\ startIdx = Len(tokenChunks) * Stride
         /\ startIdx < Len(tokens)
         /\ Len(tokenChunks) < MaxWindows
    /\ (cpc \in {"segments", "done"} /\ tokens # <<>>) =>
         LET n == Len(tokens)
             m == Len(tokenChunks)
         IN  /\ n > chunkConfig.maxTokens
             /\ m >= 2
             /\ \A k \in 0..(m - 1) :
                  tokenChunks[k + 1] =
                    decode(SubSeq(tokens, k * Stride + 1, WindowEnd(k)))
             /\ \A t \in 1..n :
                  \E k \in 0..(m - 1) : k * Stride < t /\ t <= WindowEnd(k)
             /\ \A k \in 0..(m - 2) :
                  /\ WindowEnd(k) < n
                  /\ WindowEnd(k) - (k + 1) * Stride = chunkConfig.overlap
             /\ WindowEnd(m - 1) = n

\* C27 witness: four tokens in windows of three with an overlap of one: the
\* second window, tokens 2 and 3, is the last and is not full
WindowsCoverSegment_witness ==
  /\ cpc = "done"
  /\ chunkConfig = [maxTokens |-> 3, overlap |-> 1]
  /\ Len(tokens) = 4
  /\ Len(tokenChunks) = 2
  /\ tokenChunks[2] = decode(SubSeq(tokens, 3, 4))

\* C28: the k-th wait of the retry loop is 2^(k-1) * 1000 ms; a wait comes
\* only after a failed attempt that is retried (never before the first
\* attempt), and none follows the last attempt, be it the one that used up
\* maxRetries or one that failed with an error that is not retried.
BackoffDelays ==
  /\ \A k \in 1..Len(delays) : delays[k] = (2 ^ (k - 1)) * 1000
  /\ Len(delays) <= config.maxRetries
  /\ Len(delays) = IF pc = "sleeping" THEN attempts
                   ELSE IF attempts = 0 THEN 0 ELSE attempts - 1
  /\ pc = "sleeping" => isRetryableError(lastError)

\* C28 witness: after waits of 1000 and 2000 ms the third attempt failed
\* too and rerankChunks ended on the fallback without a third wait
BackoffDelays_witness ==
  /\ pc = "done"
  /\ config.maxRetries = 2
  /\ attempts = 3
  /\ delays = <<1000, 2000>>
  /\ isRetryableError(lastError)
  /\ ~outcome.thrown
  /\ outcome.value.terminal = "fallback"

\* ------------------------------------------------------------------------
\* Properties of the selection inside rerankChunks (Spec)
\* ------------------------------------------------------------------------
\* C29: for 0 <= min <= max and a well-formed response with a chunk that
\* passes the filter, adaptive selection reads no index outside the list:
\* rerankChunks ends on "success", never on the fallback.
SelectorKeepsSuccess ==
  ( /\ RerankEnded
    /\ jinaResults.hasResults
    /\ jinaResults.hasUsage
    /\ \A k \in 1..Len(jinaResults.results) :
         jinaResults.results[k].index < Len(chunks)
    /\ \E k \in 1..Len(jinaResults.results) :
         jinaResults.results[k].relevance_score >= config.minScore
    /\ config.adaptiveTopK.enabled
    /\ 0 <= config.adaptiveTopK.min
    /\ config.adaptiveTopK.min <= config.adaptiveTopK.max ) =>
    /\ ~outcome.thrown
    /\ outcome.value.terminal = "success"

\* ------------------------------------------------------------------------
\* Properties of the encoder's release (ProcessSpec)
\* ------------------------------------------------------------------------
\* C30: in every state the encoder reference is null or an encoder that was
\* not freed; no encoder was used after its free(), none was freed twice,
\* and cleanup() with no live encoder changes nothing.
EncoderNeverStale ==
  /\ encoder \in {"null", "live"}
  /\ encoder = "live" => (constructed >= 1 /\ constructed \notin freed)
  /\ ~staleUse
  /\ ~doubleFree
  /\ encoder = "null" =>
       cleanup(encoder, constructed, freed) =
         [encoder |-> "null", freed |-> freed, doubleFree |-> FALSE]

\* C30 witness: two encoders were constructed and both were freed, the
\* second after a chunkText call that went through the token windows
EncoderNeverStale_witness ==
  /\ constructed = 2
  /\ freed = {1, 2}
  /\ encoder = "null"
  /\ cpc = "done"
  /\ ~chunking.thrown
  /\ Len(tokenChunks) >= 2

====
